---- MODULE Spec2Model ----
(***************************************************************************)
(* Model of the w.wiki statistics tool (src/app.py): the dump locator      *)
(* (list_dumps, latest_dump), the dump aggregator and its on-disk cache    *)
(* (cached_name, read_dump) and the two request handlers (main, chart).    *)
(*                                                                         *)
(* Text is a sequence of one-character strings, so that splitting lines,   *)
(* splitting on '|', parsing a URL, matching the glob pattern, slicing the *)
(* date out of a filename and comparing filenames are computed character   *)
(* by character as the Python code computes them.                          *)
(***************************************************************************)
EXTENDS Naturals, Sequences, FiniteSets

VARIABLES DUMPS, CACHE, UNLINKED, plot, proc

vars == <<DUMPS, CACHE, UNLINKED, plot, proc>>

(***************************************************************************)
(* Bounds of the model.                                                    *)
(***************************************************************************)
\* Number of workers (requests that may be in flight at once).
NProcs == 2
\* Number of validly named dump files the directory may hold.
MaxDumps == 2
\* Longest dump, in lines, of the aggregation specification SpecAgg.
MaxLines == 3
\* Most lines the figures of pyplot may come to hold: no request for
\* '/chart.svg' arrives that could make them hold more.
MaxPlotted == 2

Procs == 1..NProcs

(***************************************************************************)
(* Characters and strings.                                                 *)
(***************************************************************************)
Lower == {"a", "b", "c", "d", "e", "f", "g", "h", "i", "j", "k", "l", "m",
          "n", "o", "p", "q", "r", "s", "t", "u", "v", "w", "x", "y", "z"}
Upper == {"A", "B", "C", "D", "E", "F", "G", "H", "I", "J", "K", "L", "M",
          "N", "O", "P", "Q", "R", "S", "T", "U", "V", "W", "X", "Y", "Z"}
Digits == {"0", "1", "2", "3", "4", "5", "6", "7", "8", "9"}

\* The characters of the model in code-point order; Ord is order-isomorphic
\* to Python's ord() on them, which is all that string comparison uses.
CodePoints == <<"\n", "\r", "#", "-", ".", "/",
                "0", "1", "2", "3", "4", "5", "6", "7", "8", "9", ":", "?",
                "A", "B", "C", "D", "E", "F", "G", "H", "I", "J", "K", "L", "M",
                "N", "O", "P", "Q", "R", "S", "T", "U", "V", "W", "X", "Y", "Z",
                "a", "b", "c", "d", "e", "f", "g", "h", "i", "j", "k", "l", "m",
                "n", "o", "p", "q", "r", "s", "t", "u", "v", "w", "x", "y", "z",
                "|">>

Ord(c) == CHOOSE i \in 1..Len(CodePoints) : CodePoints[i] = c

Min(S) == CHOOSE m \in S : \A n \in S : m <= n

\* str.find for a set of characters: the least index >= from of a character
\* of cs in s, 0 when there is none.
Find(s, cs, from) ==
    LET hits == {i \in from..Len(s) : s[i] \in cs}
    IN  IF hits = {} THEN 0 ELSE Min(hits)

\* s[from:] (1-based, inclusive).
Drop(s, from) == SubSeq(s, from, Len(s))

StartsWith(s, pre) == Len(s) >= Len(pre) /\ SubSeq(s, 1, Len(pre)) = pre
EndsWith(s, suf) ==
    Len(s) >= Len(suf) /\ SubSeq(s, Len(s) - Len(suf) + 1, Len(s)) = suf

\* Python's < on str: lexicographic by code point, a proper prefix first.
RECURSIVE StrLess(_, _)
StrLess(a, b) ==
    IF b = <<>> THEN FALSE
    ELSE IF a = <<>> THEN TRUE
    ELSE IF a[1] = b[1] THEN StrLess(Tail(a), Tail(b))
    ELSE Ord(a[1]) < Ord(b[1])

(***************************************************************************)
(* str.splitlines, str.split('|', 1) and urlparse(url).netloc.             *)
(***************************************************************************)
\* The line boundaries among the model's characters (str.splitlines also
\* splits on vertical tab, form feed, the separators 0x1c-0x1e, 0x85 and the
\* Unicode line and paragraph separators, which no text of the model holds).
LineBreaks == {"\n", "\r"}

\* text.splitlines() (line 74): "\r\n" is one boundary, a final boundary
\* yields no trailing empty line, and "" has no lines.
RECURSIVE splitlines(_)
splitlines(text) ==
    IF text = <<>> THEN <<>>
    ELSE LET i == Find(text, LineBreaks, 1)
         IN  IF i = 0 THEN <<text>>
             ELSE LET crlf == text[i] = "\r" /\ i < Len(text) /\ text[i + 1] = "\n"
                      next == IF crlf THEN i + 2 ELSE i + 1
                  IN  <<SubSeq(text, 1, i - 1)>> \o splitlines(Drop(text, next))

\* line.split('|', 1) (line 75): at most one split, at the first '|'.
split(line) ==
    LET i == Find(line, {"|"}, 1)
    IN  IF i = 0 THEN <<line>>
        ELSE <<SubSeq(line, 1, i - 1), Drop(line, i + 1)>>

\* urllib.parse.scheme_chars restricted to the model's characters.
scheme_chars == Lower \cup Upper \cup Digits \cup {"-", "."}

\* urlparse(url).netloc (lines 76-77), after urllib.parse.urlsplit: a
\* leading "<scheme>:" is removed when the text before the first ':' is
\* non-empty, starts with a letter and consists of scheme characters; then,
\* if what is left starts with "//", the netloc runs from there to the first
\* of '/', '?', '#' (or to the end); otherwise it is empty.  The model's
\* URLs hold no whitespace, control characters or brackets, so urlsplit's
\* stripping of those and its IPv6 check do not apply.
netloc(url) ==
    LET i == Find(url, {":"}, 1)
        hasScheme == /\ i > 1
                     /\ url[1] \in Lower \cup Upper
                     /\ \A k \in 1..(i - 1) : url[k] \in scheme_chars
        rest == IF hasScheme THEN Drop(url, i + 1) ELSE url
    IN  IF Len(rest) >= 2 /\ rest[1] = "/" /\ rest[2] = "/"
        THEN LET d == Find(rest, {"/", "?", "#"}, 3)
             IN  IF d = 0 THEN Drop(rest, 3) ELSE SubSeq(rest, 3, d - 1)
        ELSE <<>>

(***************************************************************************)
(* dict / defaultdict(int): a mapping that keeps insertion order, as a     *)
(* sequence of items [k, v] with distinct keys.                            *)
(***************************************************************************)
Keys(d) == {d[i].k : i \in 1..Len(d)}

Pos(d, key) == CHOOSE i \in 1..Len(d) : d[i].k = key

Get(d, key) == d[Pos(d, key)].v

\* d[key] = value: replaces the value in place or appends a new item.
SetItem(d, key, value) ==
    IF key \in Keys(d)
    THEN [d EXCEPT ![Pos(d, key)].v = value]
    ELSE Append(d, [k |-> key, v |-> value])

\* data[key] += 1 on a defaultdict(int) (line 77).
Incr(d, key) ==
    IF key \in Keys(d)
    THEN SetItem(d, key, Get(d, key) + 1)
    ELSE SetItem(d, key, 1)

\* A sum that leaves out the value under 'total'.
RECURSIVE SumValuesOfDomains(_)
SumValuesOfDomains(d) ==
    IF d = <<>> THEN 0
    ELSE (IF Head(d).k = <<"t", "o", "t", "a", "l">> THEN 0 ELSE Head(d).v)
         + SumValuesOfDomains(Tail(d))

\* sum(data.values()) (line 79).
RECURSIVE SumValues(_)
SumValues(d) == IF d = <<>> THEN 0 ELSE Head(d).v + SumValues(Tail(d))

\* d.pop(key) leaves the other items in their order (line 49).
Without(d, key) == SelectSeq(d, LAMBDA it : it.k # key)

(***************************************************************************)
(* json.dump / json.load of a dict of str -> int, as a token sequence.     *)
(***************************************************************************)
TokPunct(p) == [t |-> p, s |-> <<>>, n |-> 0]
TokStr(s) == [t |-> "str", s |-> s, n |-> 0]
TokNum(n) == [t |-> "num", s |-> <<>>, n |-> n]

RECURSIVE json_items(_)
json_items(d) ==
    IF d = <<>> THEN <<>>
    ELSE <<TokStr(Head(d).k), TokPunct(":"), TokNum(Head(d).v)>>
         \o (IF Len(d) > 1 THEN <<TokPunct(",")>> ELSE <<>>)
         \o json_items(Tail(d))

\* A dump that stops before the closing brace.
json_dump_unclosed(d) == <<TokPunct("{")>> \o json_items(d)

\* json.dump(data, f) (line 82): the items in the dict's order.
json_dump(d) == <<TokPunct("{")>> \o json_items(d) \o <<TokPunct("}")>>

\* The items of an object's body, or failure; a repeated key keeps its
\* last value, as json.load does.
RECURSIVE json_parse_items(_, _)
json_parse_items(toks, acc) ==
    IF /\ Len(toks) >= 3
       /\ toks[1].t = "str" /\ toks[2].t = ":" /\ toks[3].t = "num"
    THEN LET d == SetItem(acc, toks[1].s, toks[3].n)
         IN  IF Len(toks) = 3 THEN [ok |-> TRUE, data |-> d]
             ELSE IF toks[4].t = "," THEN json_parse_items(Drop(toks, 5), d)
             ELSE [ok |-> FALSE, data |-> <<>>]
    ELSE [ok |-> FALSE, data |-> <<>>]

\* json.load(f) (line 70): fails (JSONDecodeError) on anything that is not
\* one complete object, in particular on an empty file.
json_load(toks) ==
    IF Len(toks) >= 2 /\ toks[1].t = "{" /\ toks[Len(toks)].t = "}"
    THEN IF Len(toks) = 2 THEN [ok |-> TRUE, data |-> <<>>]
         ELSE json_parse_items(SubSeq(toks, 2, Len(toks) - 1), <<>>)
    ELSE [ok |-> FALSE, data |-> <<>>]

(***************************************************************************)
(* The dump directory DUMPS (line 34) and the cache directory CACHE        *)
(* (line 35).                                                              *)
(***************************************************************************)
Prefix == <<"s", "h", "o", "r", "t", "u", "r", "l", "s", "-">>
Suffix == <<".", "g", "z">>
JsonSuffix == <<".", "j", "s", "o", "n">>

\* Publication dates of the dumps the directory may hold (the first
\* MaxDumps of them), deliberately not in chronological order.
Dates == << <<"2", "0", "1", "9", "0", "1", "0", "8">>,
            <<"2", "0", "1", "8", "1", "2", "3", "1">>,
            <<"2", "0", "1", "9", "0", "1", "0", "1">>,
            <<"2", "0", "2", "0", "0", "2", "2", "9">>,
            <<"2", "0", "1", "9", "1", "1", "1", "5">> >>

DumpName(i) == Prefix \o Dates[i] \o Suffix
DumpNames == {DumpName(i) : i \in 1..MaxDumps}
\* Matches the glob pattern, but its date part is not a date.
BadDateName == Prefix \o <<"2", "0", "1", "9">> \o Suffix
\* Does not match the glob pattern.
OtherName == <<"s", "h", "o", "r", "t", "u", "r", "l", "s", ".", "g", "z">>

FileNames == DumpNames \cup {BadDateName, OtherName}

\* The lines dumps are made of.
LineText(id) ==
    CASE id = "en" ->
           <<"a", "b", "c", "|", "h", "t", "t", "p", "s", ":", "/", "/",
             "e", "n", ".", "w", "i", "k", "i", "p", "e", "d", "i", "a", ".",
             "o", "r", "g", "/", "w", "i", "k", "i", "/", "X">>
      [] id = "commons" ->
           <<"d", "e", "f", "|", "h", "t", "t", "p", "s", ":", "/", "/",
             "c", "o", "m", "m", "o", "n", "s", ".", "w", "i", "k", "i", "m",
             "e", "d", "i", "a", ".", "o", "r", "g", "/", "w", "i", "k", "i",
             "/", "Y">>
      [] id = "total" ->
           <<"t", "|", "h", "t", "t", "p", ":", "/", "/", "t", "o", "t", "a",
             "l", "/", "a", "|", "b">>
      [] id = "nopipe" -> <<"n", "o", "p", "i", "p", "e">>
      [] id = "empty" -> <<>>

LineIds == {"en", "commons", "total", "nopipe", "empty"}

\* The decompressed, decoded text of a dump made of the given lines: the
\* lines joined by "\n" (a last empty line is thus a final line break).
RECURSIVE Text(_)
Text(ids) ==
    IF ids = <<>> THEN <<>>
    ELSE IF Len(ids) = 1 THEN LineText(ids[1])
    ELSE LineText(ids[1]) \o <<"\n">> \o Text(Tail(ids))

NoFile == [exists |-> FALSE, gz |-> FALSE, lines |-> <<>>]
GzFile(ids) == [exists |-> TRUE, gz |-> TRUE, lines |-> ids]
\* A file that is not gzip data.
JunkFile == [exists |-> TRUE, gz |-> FALSE, lines |-> <<>>]

NoEntry == [exists |-> FALSE, content |-> <<>>]

\* A cache key that does not depend on the dump: one entry for all dumps.
cached_name_shared(path) == JsonSuffix

\* cached_name(path) (lines 62-63): the dump's file name plus ".json".
cached_name(path) == path \o JsonSuffix

CacheNames == {cached_name(n) : n \in FileNames}

EmptyCache == [c \in CacheNames |-> NoEntry]

(***************************************************************************)
(* Dump locator (lines 54-59).                                             *)
(***************************************************************************)
\* fnmatch of a name against 'shorturls-*.gz'.
glob_match(name) ==
    /\ Len(name) >= Len(Prefix) + Len(Suffix)
    /\ StartsWith(name, Prefix)
    /\ EndsWith(name, Suffix)

\* The files DUMPS.glob('shorturls-*.gz') yields, as a set.
Globbed == {n \in FileNames : DUMPS[n].exists /\ glob_match(n)}

\* The orders in which the file system may enumerate a set of names.
RECURSIVE Orders(_)
Orders(S) ==
    IF S = {} THEN {<<>>}
    ELSE UNION {{<<n>> \o o : o \in Orders(S \ {n})} : n \in S}

\* sorted() (line 55): a stable insertion of each path in turn, by the
\* paths' order, which for files of one directory is that of their names.
RECURSIVE InsertSorted(_, _)
InsertSorted(sortedSoFar, n) ==
    IF sortedSoFar = <<>> THEN <<n>>
    ELSE IF StrLess(n, Head(sortedSoFar)) THEN <<n>> \o sortedSoFar
    ELSE <<Head(sortedSoFar)>> \o InsertSorted(Tail(sortedSoFar), n)

RECURSIVE sorted(_)
sorted(names) ==
    IF names = <<>> THEN <<>>
    ELSE InsertSorted(sorted(SubSeq(names, 1, Len(names) - 1)), names[Len(names)])

\* A list_dumps without the sort: the files as the file system enumerates
\* them.
list_dumps_unsorted(enum) == enum

\* list_dumps() (lines 54-55) when the glob yields the files in order enum.
list_dumps(enum) == sorted(enum)

\* A latest_dump that takes the first element of the list, not the last.
latest_dump_first(enum) ==
    LET l == list_dumps(enum)
    IN  IF l = <<>> THEN [ok |-> FALSE, path |-> <<>>]
        ELSE [ok |-> TRUE, path |-> l[1]]

\* A latest_dump that falls back on the first dump name when the list is
\* empty, where the code raises.
latest_dump_default(enum) ==
    LET l == list_dumps(enum)
    IN  IF l = <<>> THEN [ok |-> TRUE, path |-> DumpName(1)]
        ELSE [ok |-> TRUE, path |-> l[Len(l)]]

\* latest_dump() (lines 58-59): list_dumps()[-1]; IndexError on an empty list.
latest_dump(enum) ==
    LET l == list_dumps(enum)
    IN  IF l = <<>> THEN [ok |-> FALSE, path |-> <<>>]
        ELSE [ok |-> TRUE, path |-> l[Len(l)]]

(***************************************************************************)
(* datetime.strptime(datepart, '%Y%m%d') (line 93).                        *)
(***************************************************************************)
DigitVal(c) == Ord(c) - Ord("0")

RECURSIVE Num(_)
Num(s) == IF s = <<>> THEN 0 ELSE 10 * Num(SubSeq(s, 1, Len(s) - 1)) + DigitVal(s[Len(s)])

NonZero == Digits \ {"0"}

\* The head of r matches a two-digit alternative of %m, 1[0-2]|0[1-9]|[1-9];
\* the two-digit alternatives are tried first.
TwoDigitMonth(r) ==
    /\ Len(r) >= 2
    /\ \/ r[1] = "1" /\ r[2] \in {"0", "1", "2"}
       \/ r[1] = "0" /\ r[2] \in NonZero

\* The length %d, 3[01]|[12]\d|0[1-9]|[1-9], matches at the head of r (0:
\* no match).  Its last alternative, a space and a digit, needs a space,
\* which no file name of the model holds.
DayLen(r) ==
    IF /\ Len(r) >= 2
       /\ \/ r[1] = "3" /\ r[2] \in {"0", "1"}
          \/ r[1] \in {"1", "2"} /\ r[2] \in Digits
          \/ r[1] = "0" /\ r[2] \in NonZero
    THEN 2
    ELSE IF Len(r) >= 1 /\ r[1] \in NonZero THEN 1
    ELSE 0

IsLeap(y) == (y % 4 = 0 /\ y % 100 # 0) \/ y % 400 = 0

DaysInMonth(y, m) ==
    IF m = 2 THEN (IF IsLeap(y) THEN 29 ELSE 28)
    ELSE IF m \in {4, 6, 9, 11} THEN 30
    ELSE 31

NoDate == [ok |-> FALSE, y |-> 0, m |-> 0, d |-> 0]

\* strptime: the format's regular expression is matched at the start of
\* the text, taking for each field its first alternative that lets the
\* rest match; text left over ("unconverted data remains"), no match, or a
\* day the month does not have is a ValueError.
strptime(s) ==
    IF Len(s) < 4 \/ \E i \in 1..4 : s[i] \notin Digits THEN NoDate
    ELSE LET r == Drop(s, 5)
             mlen == IF TwoDigitMonth(r) /\ DayLen(Drop(r, 3)) > 0 THEN 2
                     ELSE IF Len(r) >= 1 /\ r[1] \in NonZero /\ DayLen(Drop(r, 2)) > 0
                     THEN 1
                     ELSE 0
         IN  IF mlen = 0 THEN NoDate
             ELSE LET dlen == DayLen(Drop(r, mlen + 1))
                      y == Num(SubSeq(s, 1, 4))
                      m == Num(SubSeq(r, 1, mlen))
                      d == Num(SubSeq(r, mlen + 1, mlen + dlen))
                  IN  IF /\ mlen + dlen = Len(r)
                         /\ y >= 1
                         /\ d <= DaysInMonth(y, m)
                      THEN [ok |-> TRUE, y |-> y, m |-> m, d |-> d]
                      ELSE NoDate

\* dump.name[10:-3] (line 92).
PrefixLen == 10
SuffixLen == 3
datepart(name) == SubSeq(name, PrefixLen + 1, Len(name) - SuffixLen)

(***************************************************************************)
(* The aggregation of read_dump on a cache miss (lines 71-80).             *)
(***************************************************************************)
Total == <<"t", "o", "t", "a", "l">>

\* A loop with a skip-and-continue policy: a line without '|' is passed
\* over.
RECURSIVE count_lines_skip(_, _)
count_lines_skip(lines, data) ==
    IF lines = <<>> THEN [ok |-> TRUE, data |-> data]
    ELSE LET parts == split(Head(lines))
         IN  IF Len(parts) # 2 THEN count_lines_skip(Tail(lines), data)
             ELSE count_lines_skip(Tail(lines), Incr(data, netloc(parts[2])))

\* The loop of lines 74-77 over the lines left, from the counts so far: a
\* line without '|' splits into one part, and unpacking it into code, url
\* raises ValueError.
RECURSIVE count_lines(_, _)
count_lines(lines, data) ==
    IF lines = <<>> THEN [ok |-> TRUE, data |-> data]
    ELSE LET parts == split(Head(lines))
         IN  IF Len(parts) # 2 THEN [ok |-> FALSE, data |-> data]
             ELSE count_lines(Tail(lines), Incr(data, netloc(parts[2])))

\* Lines 71-80 on the decoded text of the dump: the counts, then the sum
\* of all values stored under 'total'.
aggregate(text) ==
    LET r == count_lines(splitlines(text), <<>>)
    IN  IF r.ok
        THEN [ok |-> TRUE, data |-> SetItem(r.data, Total, SumValues(r.data))]
        ELSE [ok |-> FALSE, data |-> <<>>]

\* The items left in their dict order, without the sort of line 50.
sorted_by_count_unsorted(items) == items

\* sorted(stats.items(), key=lambda x: x[1], reverse=True) (line 50):
\* by count, greatest first, items of equal count in their dict order.
RECURSIVE InsertByCount(_, _)
InsertByCount(sortedSoFar, it) ==
    IF sortedSoFar = <<>> THEN <<it>>
    ELSE IF it.v > Head(sortedSoFar).v THEN <<it>> \o sortedSoFar
    ELSE <<Head(sortedSoFar)>> \o InsertByCount(Tail(sortedSoFar), it)

RECURSIVE sorted_by_count(_)
sorted_by_count(items) ==
    IF items = <<>> THEN <<>>
    ELSE InsertByCount(sorted_by_count(SubSeq(items, 1, Len(items) - 1)),
                       items[Len(items)])

(***************************************************************************)
(* Requests.  proc[p] is the request of worker p: which handler or function*)
(* it runs (req), where it stands (pc), its local variables, and a record  *)
(* of what it did: cache0 is CACHE when it started, opened the dump files  *)
(* it opened, written the cache files it opened for writing, hit whether   *)
(* its last read_dump found a cache entry, globbed the order in which the  *)
(* file system enumerated the dump directory, svg the figure it saved for  *)
(* its response.  While the request holds a cache file open (after line 69 *)
(* or line 81), orphan is 0 when the file is the entry named after its     *)
(* dump and otherwise tells which of the files removed from the directory  *)
(* it is.                                                                  *)
(*                                                                         *)
(* Each piece of a handler is an operator from the cache directory c and   *)
(* the request's record rec to the two after it, World(c, rec).  A handler *)
(* takes these pieces as steps of its own, between which other requests    *)
(* may take theirs; run is the pieces of a call that is alone.             *)
(***************************************************************************)
\* A figure without lines and labels.
NoFigure == [lines |-> <<>>, xlabel |-> "", ylabel |-> ""]

IdleProc ==
    [req |-> "none", pc |-> "idle", path |-> <<>>, dumps |-> <<>>,
     date |-> NoDate, data |-> <<>>, stats |-> <<>>, total |-> 0,
     x |-> <<>>, y |-> <<>>, err |-> "none", hit |-> FALSE,
     cache0 |-> EmptyCache, opened |-> <<>>, written |-> <<>>,
     globbed |-> <<>>, orphan |-> 0, svg |-> NoFigure]

World(c, rec) == [cache |-> c, rec |-> rec]

Fresh(c, r, enum) == [IdleProc EXCEPT !.req = r, !.cache0 = c, !.globbed = enum]

\* An exception leaves the handler.
Fail(rec, e) == [rec EXCEPT !.pc = "failed", !.err = e]

Ended(rec) == rec.pc \in {"idle", "done", "failed"}

\* chart, the head of the loop (lines 91-93); when no dump is left, the
\* request goes on to plot x against y (line 98).
chart_loop(rec) ==
    IF rec.dumps = <<>> THEN [rec EXCEPT !.pc = "figure"]
    ELSE LET dump == Head(rec.dumps)
             date == strptime(datepart(dump))
         IN  IF ~date.ok THEN Fail(rec, "ValueError")
             ELSE [rec EXCEPT !.path = dump, !.date = date, !.pc = "exists"]

\* chart, the rest of the loop body once read_dump has returned
\* (lines 94-96).
chart_rest(rec, data) ==
    IF Total \notin Keys(data) THEN Fail(rec, "KeyError")
    ELSE chart_loop([rec EXCEPT !.data = data,
                                !.x = Append(@, rec.date),
                                !.y = Append(@, Get(data, Total)),
                                !.dumps = Tail(@)])

\* main once read_dump has returned (lines 49-51).
main_rest(rec, data) ==
    IF Total \notin Keys(data) THEN Fail(rec, "KeyError")
    ELSE [rec EXCEPT !.data = data,
                     !.total = Get(data, Total),
                     !.stats = sorted_by_count(Without(data, Total)),
                     !.pc = "done"]

\* read_dump returns data to its caller (lines 70 and 84).
returned(rec, data) ==
    CASE rec.req = "main" -> main_rest(rec, data)
      [] rec.req = "chart" -> chart_rest(rec, data)
      [] OTHER -> [rec EXCEPT !.data = data, !.pc = "done"]

\* A direct call of read_dump(path) begins (line 67).
read_dump_begin(c, path) ==
    [Fresh(c, "read_dump", <<>>) EXCEPT !.path = path, !.pc = "exists"]

\* main up to its call of read_dump (line 48), the glob yielding enum.
main_begin(c, enum) ==
    LET r == latest_dump(enum)
        rec == Fresh(c, "main", enum)
    IN  IF r.ok THEN [rec EXCEPT !.path = r.path, !.pc = "exists"]
        ELSE Fail(rec, "IndexError")

\* chart up to its first call of read_dump (lines 89-93).
chart_begin(c, enum) ==
    chart_loop([Fresh(c, "chart", enum) EXCEPT !.dumps = list_dumps(enum)])

\* A read_dump without the cache check: every call takes the miss branch.
read_dump_exists_never(c, rec) ==
    World(c, [rec EXCEPT !.hit = FALSE, !.pc = "parse"])

\* read_dump, cache.exists() (line 68).
read_dump_exists(c, rec) ==
    LET found == c[cached_name(rec.path)].exists
    IN  World(c, [rec EXCEPT !.hit = found,
                             !.pc = IF found THEN "open_hit" ELSE "parse"])

\* read_dump, the cache hit, open(str(cache)) (line 69): the call holds
\* the file the entry names then.
read_dump_open_hit(c, rec) ==
    World(c, IF ~c[cached_name(rec.path)].exists
             THEN Fail(rec, "FileNotFoundError")
             ELSE [rec EXCEPT !.orphan = 0, !.pc = "load"])

\* The files that were removed from the cache directory while calls held
\* them open: u[n].used tells whether n is such a file.
NoOrphan == [used |-> FALSE, content |-> <<>>]

NoUnlinked == [n \in Procs |-> NoOrphan]

\* The cache directory c, the removed files u and the request's record.
Held(c, u, rec) == [cache |-> c, unlinked |-> u, rec |-> rec]

\* The content of the file the call holds open.
held_content(c, u, rec) ==
    IF rec.orphan = 0 THEN c[cached_name(rec.path)].content
    ELSE u[rec.orphan].content

\* read_dump, the cache hit, json.load(f), the close of the file and the
\* return (line 70): the call reads what the file it holds contains then.
read_dump_load(c, u, rec) ==
    LET r == json_load(held_content(c, u, rec))
        closed == [rec EXCEPT !.orphan = 0]
    IN  Held(c, u, IF r.ok THEN returned(closed, r.data)
                   ELSE Fail(closed, "JSONDecodeError"))

\* read_dump, the cache miss: read the dump and aggregate it (lines 71-80).
read_dump_parse(c, rec) ==
    LET f == DUMPS[rec.path]
        rec1 == [rec EXCEPT !.opened = Append(@, rec.path)]
        r == aggregate(Text(f.lines))
    IN  World(c, IF ~f.exists THEN Fail(rec1, "FileNotFoundError")
                 ELSE IF ~f.gz THEN Fail(rec1, "BadGzipFile")
                 ELSE IF ~r.ok THEN Fail(rec1, "ValueError")
                 ELSE [rec1 EXCEPT !.data = r.data, !.pc = "open"])

\* read_dump, open(str(cache), 'w') (line 81): creates the entry, or
\* truncates it, empty; the call holds the file the entry names.
read_dump_open(c, rec) ==
    World([c EXCEPT ![cached_name(rec.path)] = [exists |-> TRUE, content |-> <<>>]],
          [rec EXCEPT !.written = Append(@, cached_name(rec.path)),
                      !.orphan = 0,
                      !.pc = "dump"])

\* The cache directory once the file the call holds has received text:
\* the entry holds it, unless the file was removed from the directory.
written_cache(c, rec, text) ==
    IF rec.orphan = 0
    THEN [c EXCEPT ![cached_name(rec.path)] = [exists |-> TRUE, content |-> text]]
    ELSE c

\* The removed files once the file the call holds has received text.
written_unlinked(u, rec, text) ==
    IF rec.orphan = 0 THEN u
    ELSE [u EXCEPT ![rec.orphan] = [used |-> TRUE, content |-> text]]

\* A write of the record without its total.
read_dump_dump_no_total(c, u, rec) ==
    LET text == json_dump(Without(rec.data, Total))
    IN  Held(written_cache(c, rec, text), written_unlinked(u, rec, text),
             returned([rec EXCEPT !.orphan = 0], rec.data))

\* A write that appends to what the file holds instead of writing from
\* its start.
read_dump_dump_append(c, u, rec) ==
    LET text == held_content(c, u, rec) \o json_dump(rec.data)
    IN  Held(written_cache(c, rec, text), written_unlinked(u, rec, text),
             returned([rec EXCEPT !.orphan = 0], rec.data))

\* read_dump, json.dump(data, f), the close of the file and the return
\* (lines 82-84).
read_dump_dump(c, u, rec) ==
    LET text == json_dump(rec.data)
    IN  Held(written_cache(c, rec, text), written_unlinked(u, rec, text),
             returned([rec EXCEPT !.orphan = 0], rec.data))

\* The cache directory and the record of a piece that holds a file.
OfHeld(w) == World(w.cache, w.rec)

\* The next piece of the request, by where it stands.
step(c, rec) ==
    CASE rec.pc = "exists" -> read_dump_exists(c, rec)
      [] rec.pc = "open_hit" -> read_dump_open_hit(c, rec)
      [] rec.pc = "load" -> OfHeld(read_dump_load(c, NoUnlinked, rec))
      [] rec.pc = "parse" -> read_dump_parse(c, rec)
      [] rec.pc = "open" -> read_dump_open(c, rec)
      [] rec.pc = "dump" -> OfHeld(read_dump_dump(c, NoUnlinked, rec))

(***************************************************************************)
(* pyplot (line 28) keeps, for the whole process, the figures that are     *)
(* open, the one created last being the current figure, on which every     *)
(* call of the module acts; chart keeps no reference to the figure it      *)
(* creates.  A figure is the lines plotted on it and its two labels.  The  *)
(* workers are threads of the one process (app.run, line 113), so they     *)
(* share the figures.  A call of pyplot is one step.                       *)
(***************************************************************************)
NoFigures == <<>>

\* pyplot's gcf(): the figures with a current figure among them, a new one
\* when none is open.
gcf(figs) == IF figs = <<>> THEN <<NoFigure>> ELSE figs

\* The current figure.
current(figs) == gcf(figs)[Len(gcf(figs))]

\* plot.figure(...) (line 98): a new figure, which becomes the current one.
plot_figure(figs) == Append(figs, NoFigure)

\* plot.plot(x, y) (line 99): one more line on the current figure.
plot_plot(figs, x, y) ==
    [gcf(figs) EXCEPT ![Len(gcf(figs))].lines = Append(@, [x |-> x, y |-> y])]

\* plot.xlabel('Date') (line 100), on the current figure.
plot_xlabel(figs, label) ==
    [gcf(figs) EXCEPT ![Len(gcf(figs))].xlabel = label]

\* plot.ylabel('Shortened URLs') (line 101), on the current figure.
plot_ylabel(figs, label) ==
    [gcf(figs) EXCEPT ![Len(gcf(figs))].ylabel = label]

\* plot.clf() (line 104) and plot.cla() (line 105): the current figure,
\* then its axes, without lines and labels.
plot_clf(figs) == [gcf(figs) EXCEPT ![Len(gcf(figs))] = NoFigure]

plot_cla(figs) == [gcf(figs) EXCEPT ![Len(gcf(figs))] = NoFigure]

\* plot.close() (line 106): the current figure is closed, when there is
\* one, and the one created before it is current again.
plot_close(figs) == IF figs = <<>> THEN figs ELSE SubSeq(figs, 1, Len(figs) - 1)

\* The pieces of chart after its loop, from the figures and the request's
\* record to the two after the piece.
Drawn(figs, rec) == [figs |-> figs, rec |-> rec]

chart_figure(figs, rec) ==
    Drawn(plot_figure(figs), [rec EXCEPT !.pc = "plot"])

chart_plot(figs, rec) ==
    Drawn(plot_plot(figs, rec.x, rec.y), [rec EXCEPT !.pc = "xlabel"])

chart_xlabel(figs, rec) ==
    Drawn(plot_xlabel(figs, "Date"), [rec EXCEPT !.pc = "ylabel"])

chart_ylabel(figs, rec) ==
    Drawn(plot_ylabel(figs, "Shortened URLs"), [rec EXCEPT !.pc = "savefig"])

\* plot.savefig(f, format='svg') (lines 102-103): the current figure as
\* it is then is what the response will hold.
chart_savefig(figs, rec) ==
    Drawn(gcf(figs), [rec EXCEPT !.svg = current(figs), !.pc = "clf"])

chart_clf(figs, rec) ==
    Drawn(plot_clf(figs), [rec EXCEPT !.pc = "cla"])

chart_cla(figs, rec) ==
    Drawn(plot_cla(figs), [rec EXCEPT !.pc = "close"])

\* plot.close() and the response (lines 106-109).
chart_close(figs, rec) ==
    Drawn(plot_close(figs), [rec EXCEPT !.pc = "done"])

\* The request run to its end with no step of another request and no
\* change of the directories in between: what a call does when it is alone.
RECURSIVE run(_, _)
run(c, rec) ==
    IF Ended(rec) THEN World(c, rec)
    ELSE LET w == step(c, rec) IN run(w.cache, w.rec)

\* read_dump(path) called alone (lines 66-84).
read_dump(c, path) == run(c, read_dump_begin(c, path))

(***************************************************************************)
(* Actions.  The code takes no lock, so a request is not one step: each    *)
(* piece of a handler that looks at or changes a directory is a step of    *)
(* its own, and steps of other requests may fall between two of them.      *)
(* list_dumps and latest_dump look at the dump directory once.             *)
(***************************************************************************)
Becomes(p, w) ==
    /\ CACHE' = w.cache
    /\ proc' = [proc EXCEPT ![p] = w.rec]
    /\ UNCHANGED <<DUMPS, UNLINKED, plot>>

\* The request holds a cache file open (between lines 69 and 70, or
\* between lines 81 and 82).
Holds(rec) == rec.pc \in {"load", "dump"}

\* The removed files once worker p has closed the file it held: a removed
\* file that no call holds any more is gone.
Released(u, p) ==
    LET n == proc[p].orphan
    IN  IF n = 0 \/ \E q \in Procs \ {p} : Holds(proc[q]) /\ proc[q].orphan = n
        THEN u
        ELSE [u EXCEPT ![n] = NoOrphan]

\* The effect of a piece that ends with the close of the file held.
Closes(p, w) ==
    /\ CACHE' = w.cache
    /\ UNLINKED' = Released(w.unlinked, p)
    /\ proc' = [proc EXCEPT ![p] = w.rec]
    /\ UNCHANGED <<DUMPS, plot>>

Draws(p, d) ==
    /\ plot' = d.figs
    /\ proc' = [proc EXCEPT ![p] = d.rec]
    /\ UNCHANGED <<DUMPS, CACHE, UNLINKED>>

\* A call of list_dumps() (lines 54-55).
ListDumps(p) ==
    /\ Ended(proc[p])
    /\ \E enum \in Orders(Globbed) :
        Becomes(p, World(CACHE, [Fresh(CACHE, "list_dumps", enum) EXCEPT
                                    !.dumps = list_dumps(enum), !.pc = "done"]))

\* A call of latest_dump() (lines 58-59).
LatestDump(p) ==
    /\ Ended(proc[p])
    /\ \E enum \in Orders(Globbed) :
        LET r == latest_dump(enum)
            rec == Fresh(CACHE, "latest_dump", enum)
        IN  Becomes(p, World(CACHE, IF r.ok
                                    THEN [rec EXCEPT !.path = r.path, !.pc = "done"]
                                    ELSE Fail(rec, "IndexError")))

\* The worker p serves no request.
Free(p) == Ended(proc[p])

\* A call of read_dump on a file of the dump directory starts.
StartReadDump(p) ==
    /\ Free(p)
    /\ \E path \in {n \in FileNames : DUMPS[n].exists} :
         Becomes(p, World(CACHE, read_dump_begin(CACHE, path)))

\* A call of read_dump on a path that leads to no file starts.
StartReadMissing(p) ==
    /\ Free(p)
    /\ \E path \in {n \in FileNames : ~DUMPS[n].exists} :
         Becomes(p, World(CACHE, read_dump_begin(CACHE, path)))

\* A request for '/' starts.
StartMain(p) ==
    /\ Free(p)
    /\ \E enum \in Orders(Globbed) :
         Becomes(p, World(CACHE, main_begin(CACHE, enum)))

\* The number of lines on the figures.
RECURSIVE Plotted(_)
Plotted(figs) ==
    IF figs = <<>> THEN 0 ELSE Len(Head(figs).lines) + Plotted(Tail(figs))

\* The requests for '/chart.svg' under way that have yet to plot.
ToPlot ==
    {q \in Procs : /\ proc[q].req = "chart"
                   /\ proc[q].pc \in {"exists", "open_hit", "load", "parse",
                                      "open", "dump", "figure", "plot"}}

\* A request for '/chart.svg' starts.
StartChart(p) ==
    /\ Free(p)
    /\ Plotted(plot) + Cardinality(ToPlot) < MaxPlotted
    /\ \E enum \in Orders(Globbed) :
         Becomes(p, World(CACHE, chart_begin(CACHE, enum)))

StepExists(p) ==
    proc[p].pc = "exists" /\ Becomes(p, read_dump_exists(CACHE, proc[p]))

StepOpenHit(p) ==
    proc[p].pc = "open_hit" /\ Becomes(p, read_dump_open_hit(CACHE, proc[p]))

StepLoad(p) ==
    proc[p].pc = "load" /\ Closes(p, read_dump_load(CACHE, UNLINKED, proc[p]))

StepParse(p) ==
    proc[p].pc = "parse" /\ Becomes(p, read_dump_parse(CACHE, proc[p]))

StepOpen(p) ==
    proc[p].pc = "open" /\ Becomes(p, read_dump_open(CACHE, proc[p]))

StepDump(p) ==
    proc[p].pc = "dump" /\ Closes(p, read_dump_dump(CACHE, UNLINKED, proc[p]))

StepFigure(p) ==
    proc[p].pc = "figure" /\ Draws(p, chart_figure(plot, proc[p]))

StepPlot(p) ==
    proc[p].pc = "plot" /\ Draws(p, chart_plot(plot, proc[p]))

StepXlabel(p) ==
    proc[p].pc = "xlabel" /\ Draws(p, chart_xlabel(plot, proc[p]))

StepYlabel(p) ==
    proc[p].pc = "ylabel" /\ Draws(p, chart_ylabel(plot, proc[p]))

StepSavefig(p) ==
    proc[p].pc = "savefig" /\ Draws(p, chart_savefig(plot, proc[p]))

StepClf(p) ==
    proc[p].pc = "clf" /\ Draws(p, chart_clf(plot, proc[p]))

StepCla(p) ==
    proc[p].pc = "cla" /\ Draws(p, chart_cla(plot, proc[p]))

StepClose(p) ==
    proc[p].pc = "close" /\ Draws(p, chart_close(plot, proc[p]))

\* The worker p takes the next step of the plot of the request for
\* '/chart.svg' it serves.
StepChart(p) ==
    \/ StepFigure(p)
    \/ StepPlot(p)
    \/ StepXlabel(p)
    \/ StepYlabel(p)
    \/ StepSavefig(p)
    \/ StepClf(p)
    \/ StepCla(p)
    \/ StepClose(p)

\* The worker p takes the next step of the call of read_dump it is in.
Step(p) ==
    \/ StepExists(p)
    \/ StepOpenHit(p)
    \/ StepLoad(p)
    \/ StepParse(p)
    \/ StepOpen(p)
    \/ StepDump(p)

(***************************************************************************)
(* Specifications.                                                         *)
(***************************************************************************)
\* The contents the first dump of the request specifications may have:
\* the example of the documentation, a dump whose domains first occur in
\* another order than that of their counts, a dump whose second line has
\* no '|', and a dump with a URL of the host "total".
DumpTexts ==
    {<<"en", "commons", "en">>, <<"commons", "en", "en">>,
     <<"en", "nopipe">>, <<"total", "en">>}

\* The dump directories of the request specifications: the first dump,
\* which has the latest date, is missing or holds any of DumpTexts; each
\* other dump is missing or holds one line; the file whose name holds no
\* date is missing or holds lines whose domains first occur in another
\* order than that of their counts; the file that does not match the
\* pattern is missing or is not gzip data.  The directory may thus be empty.
Dirs ==
    {d \in [FileNames -> {NoFile, JunkFile} \cup
                {GzFile(t) : t \in DumpTexts \cup {<<"commons">>, <<"commons", "en", "en">>}}] :
        /\ d[DumpName(1)] \in {NoFile} \cup {GzFile(t) : t \in DumpTexts}
        /\ \A n \in DumpNames \ {DumpName(1)} : d[n] \in {NoFile, GzFile(<<"commons">>)}
        /\ d[BadDateName] \in {NoFile, GzFile(<<"commons", "en", "en">>)}
        /\ d[OtherName] \in {NoFile, JunkFile}}

Init ==
    /\ DUMPS \in Dirs
    /\ CACHE = EmptyCache
    /\ UNLINKED = NoUnlinked
    /\ plot = NoFigures
    /\ proc = [p \in Procs |-> IdleProc]

\* The first worker.
First == Min(Procs)

\* A second worker.
Second == Min(Procs \ {First})

\* Requests and calls served by one worker, hence one after the other.
Next ==
    \/ StartReadDump(First)
    \/ StartReadMissing(First)
    \/ StartMain(First)
    \/ StartChart(First)
    \/ Step(First)
    \/ StepChart(First)
    \/ ListDumps(First)
    \/ LatestDump(First)

Spec == Init /\ [][Next]_vars

\* All dumps of at most MaxLines lines.
RECURSIVE TextsOfLen(_)
TextsOfLen(n) ==
    IF n = 0 THEN {<<>>}
    ELSE {Append(t, id) : t \in TextsOfLen(n - 1), id \in LineIds}

AllTexts == UNION {TextsOfLen(n) : n \in 0..MaxLines}

\* The first dump holds any text; one other dump holds one line.
InitAgg ==
    /\ \E t \in AllTexts :
         DUMPS = [n \in FileNames |->
                    IF n = DumpName(1) THEN GzFile(t)
                    ELSE IF n = DumpName(MaxDumps) THEN GzFile(<<"commons">>)
                    ELSE NoFile]
    /\ CACHE = EmptyCache
    /\ UNLINKED = NoUnlinked
    /\ plot = NoFigures
    /\ proc = [p \in Procs |-> IdleProc]

\* Calls of read_dump by two workers, which may overlap.
NextAgg ==
    \E p \in {First, Second} :
        \/ StartReadDump(p)
        \/ Step(p)

SpecAgg == InitAgg /\ [][NextAgg]_vars

\* The first dump holds any of DumpTexts; one other dump is missing or
\* holds one line.
InitClear ==
    /\ \E t \in DumpTexts, f \in {NoFile, GzFile(<<"commons">>)} :
         DUMPS = [n \in FileNames |->
                    IF n = DumpName(1) THEN GzFile(t)
                    ELSE IF n = DumpName(MaxDumps) THEN f
                    ELSE NoFile]
    /\ CACHE = EmptyCache
    /\ UNLINKED = NoUnlinked
    /\ plot = NoFigures
    /\ proc = [p \in Procs |-> IdleProc]

\* The entries that calls hold open.
HeldEntries(pr) ==
    {cached_name(pr[p].path) : p \in {q \in Procs : Holds(pr[q]) /\ pr[q].orphan = 0}}

\* The entries of names removed from the directory c: each becomes one of
\* the removed files, which the calls that held the entry hold from then on.
RECURSIVE Unlink(_, _, _, _)
Unlink(names, c, u, pr) ==
    IF names = {} THEN [unlinked |-> u, proc |-> pr]
    ELSE LET k == CHOOSE k \in names : TRUE
             n == Min({m \in Procs : ~u[m].used})
         IN  Unlink(names \ {k}, c,
                    [u EXCEPT ![n] = [used |-> TRUE, content |-> c[k].content]],
                    [p \in Procs |->
                       IF Holds(pr[p]) /\ pr[p].orphan = 0
                          /\ cached_name(pr[p].path) = k
                       THEN [pr[p] EXCEPT !.orphan = n]
                       ELSE pr[p]])

\* The cache emptied at any moment (by whoever operates the tool: no code
\* of the tool removes an entry).  A call that holds an entry open (between
\* lines 69 and 70, or between lines 81 and 82) keeps the file, which no
\* name leads to any more.
ClearCache ==
    LET gone == Unlink(HeldEntries(proc), CACHE, UNLINKED, proc)
    IN  /\ CACHE' = EmptyCache
        /\ UNLINKED' = gone.unlinked
        /\ proc' = gone.proc
        /\ UNCHANGED <<DUMPS, plot>>

\* Calls of read_dump by two workers, which may overlap, the cache emptied
\* at any moment.
NextClear ==
    \/ \E p \in {First, Second} :
          \/ StartReadDump(p)
          \/ Step(p)
    \/ ClearCache

SpecClear == InitClear /\ [][NextClear]_vars

\* Overlapping requests for the one dump of the directory, which holds any
\* of DumpTexts: calls of read_dump on it, requests for '/', which read it,
\* and requests for '/chart.svg', of which it is the only point.  Which
\* dump a request for '/' reads among several is the matter of InitLatest.
InitConc ==
    /\ \E t \in DumpTexts :
         DUMPS = [n \in FileNames |->
                    IF n = DumpName(1) THEN GzFile(t) ELSE NoFile]
    /\ CACHE = EmptyCache
    /\ UNLINKED = NoUnlinked
    /\ plot = NoFigures
    /\ proc = [p \in Procs |-> IdleProc]

NextConc ==
    \E p \in Procs :
        \/ StartReadDump(p)
        \/ StartMain(p)
        \/ StartChart(p)
        \/ Step(p)
        \/ StepChart(p)

SpecConc == InitConc /\ [][NextConc]_vars

\* Overlapping calls of read_dump on the one dump of the directory and
\* requests for '/', of any number of workers.
NextReads ==
    \E p \in Procs :
        \/ StartReadDump(p)
        \/ StartMain(p)
        \/ Step(p)

SpecReads == InitConc /\ [][NextReads]_vars

\* A dump that holds any of DumpTexts and, in some directories, an earlier
\* dump of one line: the first is then the latest of two dumps, and the
\* last that the file system need enumerate.
InitLatest ==
    /\ \E t \in DumpTexts, o \in {NoFile, GzFile(<<"commons">>)} :
         DUMPS = [n \in FileNames |->
                    IF n = DumpName(1) THEN GzFile(t)
                    ELSE IF n = DumpName(MaxDumps) THEN o
                    ELSE NoFile]
    /\ CACHE = EmptyCache
    /\ UNLINKED = NoUnlinked
    /\ plot = NoFigures
    /\ proc = [p \in Procs |-> IdleProc]

\* Overlapping requests for '/' and calls of read_dump, on either dump, of
\* two workers.
NextLatest ==
    \E p \in {First, Second} :
        \/ StartReadDump(p)
        \/ StartMain(p)
        \/ Step(p)

SpecLatest == InitLatest /\ [][NextLatest]_vars

\* Two dumps in the directory: the first, which holds the example of the
\* documentation or lines with a URL of the host "total", and another, of
\* one line.
InitPair ==
    /\ \E t \in {<<"en", "commons", "en">>, <<"total", "en">>} :
         DUMPS = [n \in FileNames |->
                    IF n = DumpName(1) THEN GzFile(t)
                    ELSE IF n = DumpName(MaxDumps) THEN GzFile(<<"commons">>)
                    ELSE NoFile]
    /\ CACHE = EmptyCache
    /\ UNLINKED = NoUnlinked
    /\ plot = NoFigures
    /\ proc = [p \in Procs |-> IdleProc]

\* Overlapping calls of read_dump and requests for '/' of two workers.
NextPair ==
    \E p \in {First, Second} :
        \/ StartReadDump(p)
        \/ StartMain(p)
        \/ Step(p)

SpecPair == InitPair /\ [][NextPair]_vars

(***************************************************************************)
(* Properties.                                                             *)
(***************************************************************************)
\* The lines of dump file n, as the aggregation sees them.
LinesOf(n) == splitlines(Text(DUMPS[n].lines))

HasPipe(line) == \E i \in 1..Len(line) : line[i] = "|"

\* The target URL of a line: the text after its first '|'.
UrlOf(line) == Drop(line, Min({i \in 1..Len(line) : line[i] = "|"}) + 1)

\* A readable dump all of whose lines contain a '|'.
WellFormed(n) ==
    /\ DUMPS[n].exists /\ DUMPS[n].gz
    /\ LET lines == LinesOf(n)
       IN  \A i \in 1..Len(lines) : HasPipe(lines[i])

\* A readable dump with a line that has no '|'.
Malformed(n) ==
    /\ DUMPS[n].exists /\ DUMPS[n].gz
    /\ LET lines == LinesOf(n)
       IN  \E i \in 1..Len(lines) : ~HasPipe(lines[i])

\* Worker p holds a direct read_dump call that returned a record it
\* computed itself (a cache miss).
Computed(p) ==
    /\ proc[p].req = "read_dump" /\ proc[p].pc = "done"
    /\ ~proc[p].hit

\* The number of lines of dump n whose URL has network-location d.
CountOf(n, d) ==
    Cardinality({i \in 1..Len(LinesOf(n)) : netloc(UrlOf(LinesOf(n)[i])) = d})

\* The network-locations that occur in dump n.
Occurring(n) == {netloc(UrlOf(LinesOf(n)[i])) : i \in 1..Len(LinesOf(n))}

RECURSIVE SumOver(_, _)
SumOver(d, keys) ==
    IF keys = {} THEN 0
    ELSE LET key == CHOOSE key \in keys : TRUE
         IN  Get(d, key) + SumOver(d, keys \ {key})

\* C1: in every record read_dump computes on a cache miss, the counts of
\* the keys other than "total" add up to the value under "total".
C1_TotalIsSumOfDomains ==
    \A p \in Procs :
        Computed(p) /\ WellFormed(proc[p].path) =>
            /\ Total \in Keys(proc[p].data)
            /\ SumOver(proc[p].data, Keys(proc[p].data) \ {Total})
                 = Get(proc[p].data, Total)

\* C2: the record read_dump computes on a cache miss maps every
\* network-location that occurs in the dump to the number of lines whose
\* URL has it, and has no other key than those and "total".
C2_CountsPerNetloc ==
    \A p \in Procs :
        Computed(p) /\ WellFormed(proc[p].path) =>
            /\ Keys(proc[p].data) = Occurring(proc[p].path) \cup {Total}
            /\ \A d \in Occurring(proc[p].path) :
                 Get(proc[p].data, d) = CountOf(proc[p].path, d)

\* A call of read_dump on dump d.
IsReadDump(rec, d) == rec.req = "read_dump" /\ rec.path = d

\* C3: when one worker calls read_dump twice in a row on the same dump,
\* the second call starts on the cache as the first left it, with the
\* dump's entry in it when the first returned a record and without it when
\* the first failed; a call that starts with the entry in the cache changes
\* nothing at any of its steps, neither the cache nor the dumps, opens no
\* dump file and no cache file for writing, and ends as a cache hit that
\* returns the record of the entry; a call that fails leaves the cache as
\* it was when it started.  So the entry after the second call is the
\* entry after the first.
C3_SecondCallIsAHit ==
    [][\A d \in FileNames :
         LET key == cached_name(d)
             first == proc[First]
             rec == proc'[First]
         IN  /\ (/\ IsReadDump(first, d) /\ Ended(first)
                 /\ IsReadDump(rec, d) /\ rec.pc = "exists") =>
                    /\ rec.cache0 = CACHE
                    /\ CACHE' = CACHE
                    /\ first.pc = "done" => CACHE[key].exists
                    /\ first.pc = "failed" => ~CACHE[key].exists
             /\ (IsReadDump(rec, d) /\ rec.cache0[key].exists) =>
                    /\ CACHE' = rec.cache0
                    /\ DUMPS' = DUMPS
                    /\ rec.opened = <<>>
                    /\ rec.written = <<>>
                    /\ Ended(rec) =>
                         /\ rec.pc = "done"
                         /\ rec.hit
                         /\ rec.data = json_load(rec.cache0[key].content).data
             /\ (IsReadDump(rec, d) /\ rec.pc = "failed") =>
                    CACHE' = rec.cache0]_vars

\* A second call of read_dump on a dump has returned: it found the entry
\* the first call wrote and touched neither the dump nor the cache.
C3_Witness ==
    /\ proc[First].req = "read_dump" /\ proc[First].pc = "done"
    /\ proc[First].hit
    /\ WellFormed(proc[First].path)
    /\ proc[First].cache0[cached_name(proc[First].path)].exists
    /\ proc[First].cache0 = CACHE
    /\ json_load(CACHE[cached_name(proc[First].path)].content).data
         = proc[First].data

\* Worker p is inside a call of read_dump.
InReadDump(rec) ==
    rec.pc \in {"exists", "open_hit", "load", "parse", "open", "dump"}

\* C4: whatever requests overlap, no step of a call of read_dump(dump)
\* changes a dump file or a cache entry other than the one named by the
\* dump's file name followed by ".json", and only the two steps of the
\* write change that one; the call goes to the write only from a miss, when
\* the entry did not exist; when the call returns from the write the entry
\* exists and holds the record it returns, "total" included, and that
\* entry is the one cache file a direct call has opened for writing.
C4_MissWritesOneEntry ==
    [][\A p \in Procs :
         LET rec == proc[p]
             after == proc'[p]
             key == rec.path \o <<".", "j", "s", "o", "n">>
         IN  (after # rec /\ InReadDump(rec)) =>
               /\ cached_name(rec.path) = key
               /\ DUMPS' = DUMPS
               /\ \A k \in CacheNames \ {key} : CACHE'[k] = CACHE[k]
               /\ rec.pc \notin {"open", "dump"} => CACHE' = CACHE
               /\ (rec.pc = "exists" /\ after.pc = "parse") => ~CACHE[key].exists
               /\ rec.pc = "dump" =>
                    /\ ~rec.hit
                    /\ Total \in Keys(rec.data)
                    /\ CACHE'[key].exists
                    /\ json_load(CACHE'[key].content)
                         = [ok |-> TRUE, data |-> rec.data]
                    /\ rec.written[Len(rec.written)] = key
                    /\ rec.req = "read_dump" =>
                         /\ after.pc = "done"
                         /\ after.data = rec.data
                         /\ after.written = <<key>>]_vars

\* A call of read_dump has returned from the miss branch, its record in the
\* dump's entry, while the cache held the entry of another dump, as it
\* still does, and while another call on the same dump, which has opened
\* the entry for writing too, has yet to write it.
C4_Witness ==
    /\ proc[First].req = "read_dump" /\ proc[First].pc = "done"
    /\ ~proc[First].hit
    /\ proc[First].written = <<cached_name(proc[First].path)>>
    /\ json_load(CACHE[cached_name(proc[First].path)].content)
         = [ok |-> TRUE, data |-> proc[First].data]
    /\ \E k \in CacheNames \ {cached_name(proc[First].path)} :
         proc[First].cache0[k].exists /\ CACHE[k] = proc[First].cache0[k]
    /\ proc[Second].pc = "dump" /\ proc[Second].path = proc[First].path

\* A call of worker p that has ended ran read_dump on dump d as a first read:
\* it found no cache entry, computed the record and wrote it.
FirstRead(p, d) ==
    /\ proc[p].req \in {"read_dump", "main", "chart"}
    /\ proc[p].path = d
    /\ proc[p].pc = "done"
    /\ ~proc[p].hit
    /\ proc[p].written # <<>>

\* C5: once no call is in flight, if two or more calls have read the same
\* well-formed dump as first reads (each found no entry, so they
\* overlapped), the dump's cache entry holds what one read_dump alone,
\* started on an empty cache, writes.
C5_RaceIsBenign ==
    \A d \in FileNames :
        (/\ WellFormed(d)
         /\ \A p \in Procs : Ended(proc[p])
         /\ \E p, q \in Procs : p # q /\ FirstRead(p, d) /\ FirstRead(q, d)) =>
            /\ CACHE[cached_name(d)].exists
            /\ CACHE[cached_name(d)]
                 = read_dump(EmptyCache, d).cache[cached_name(d)]

\* Two calls have ended that both read the same well-formed dump as first
\* reads, and no call is in flight.
C5_Witness ==
    /\ \A p \in Procs : Ended(proc[p])
    /\ \E d \in FileNames :
         /\ WellFormed(d)
         /\ \E p, q \in Procs : p # q /\ FirstRead(p, d) /\ FirstRead(q, d)
         /\ json_load(CACHE[cached_name(d)].content).ok

\* C6: a dump with a line that has no '|', wherever the line stands, never
\* has a cache entry, so no call is served one; a call of read_dump that
\* has ended on such a dump failed with the ValueError of the unpacking,
\* after a cache miss, returned no record and opened no cache file for
\* writing; and no step of such a call changes the cache, whatever other
\* calls overlap it.
C6_MalformedFailsWhole ==
    /\ [](\A n \in FileNames : Malformed(n) => ~CACHE[cached_name(n)].exists)
    /\ [](\A p \in Procs :
            (/\ proc[p].req = "read_dump" /\ Ended(proc[p])
             /\ Malformed(proc[p].path)) =>
               /\ proc[p].pc = "failed"
               /\ proc[p].err = "ValueError"
               /\ ~proc[p].hit
               /\ proc[p].data = <<>>
               /\ proc[p].written = <<>>)
    /\ [][\A p \in Procs :
            (/\ proc'[p] # proc[p]
             /\ proc'[p].req = "read_dump"
             /\ Malformed(proc'[p].path)) => CACHE' = CACHE]_vars

\* A call of read_dump has failed on a dump whose first line is well formed
\* and a later line is not, while the cache held the entry of another dump
\* and another call on the same dump was under way.
C6_Witness ==
    /\ proc[First].req = "read_dump" /\ proc[First].pc = "failed"
    /\ Malformed(proc[First].path)
    /\ HasPipe(LinesOf(proc[First].path)[1])
    /\ proc[First].opened = <<proc[First].path>>
    /\ \E k \in CacheNames : CACHE[k].exists
    /\ proc[Second].path = proc[First].path /\ proc[Second].pc = "parse"

\* C7: any two calls of read_dump that returned a record for the same
\* well-formed dump returned the same record, whatever the cache held when
\* each started, whatever calls were made for other dumps, whether the
\* calls overlapped, and whenever the cache was cleared.
C7_Deterministic ==
    \A p, q \in Procs :
        (/\ proc[p].req = "read_dump" /\ proc[p].pc = "done"
         /\ proc[q].req = "read_dump" /\ proc[q].pc = "done"
         /\ proc[p].path = proc[q].path
         /\ WellFormed(proc[p].path)) =>
            proc[p].data = proc[q].data

\* Two calls of read_dump on the same well-formed dump have both computed
\* the record, starting from different caches: one started while the cache
\* held the entry of another dump, which has been cleared since, and the
\* other started on the cleared cache.
C7_Witness ==
    /\ proc[First].cache0 = EmptyCache
    /\ \E k \in CacheNames : proc[Second].cache0[k].exists /\ ~CACHE[k].exists
    /\ proc[First].req = "read_dump" /\ proc[First].pc = "done"
    /\ proc[Second].req = "read_dump" /\ proc[Second].pc = "done"
    /\ proc[First].path = proc[Second].path
    /\ WellFormed(proc[First].path)
    /\ ~proc[First].hit /\ ~proc[Second].hit
    /\ proc[First].cache0 # proc[Second].cache0
    /\ Cardinality(Keys(proc[First].data)) >= 3
    /\ proc[First].data = proc[Second].data

\* Some call has opened cache entry k for writing and not yet written it.
BeingWritten(k) ==
    \E p \in Procs : proc[p].pc = "dump" /\ cached_name(proc[p].path) = k

\* C8: a cache entry that exists, and that no call is in the course of
\* writing, is the same, with the same content, after every step of every
\* execution of read_dump calls and requests for '/' and '/chart.svg': it
\* is never removed and its content never changes.
C8_EntriesNeverChange ==
    [][\A k \in CacheNames :
         (CACHE[k].exists /\ ~BeingWritten(k)) => CACHE'[k] = CACHE[k]]_vars

\* A validly named dump file: shorturls-YYYYMMDD.gz, the eight digits a date
\* of the calendar.
ValidName(n) ==
    /\ StartsWith(n, Prefix) /\ EndsWith(n, Suffix)
    /\ Len(n) = Len(Prefix) + 8 + Len(Suffix)
    /\ \A i \in 1..8 : n[Len(Prefix) + i] \in Digits
    /\ strptime(datepart(n)).ok

\* The date in the name of a validly named dump file.
DateOf(n) == strptime(datepart(n))

\* Date a is not after date b.
NotAfter(a, b) ==
    \/ a.y < b.y
    \/ a.y = b.y /\ a.m < b.m
    \/ a.y = b.y /\ a.m = b.m /\ a.d <= b.d

\* C9: the list a call of list_dumps returns holds the files of the dump
\* directory that match shorturls-*.gz, each once and no other, in strictly
\* ascending order of their names, the validly named files among them in
\* chronological order; it is the same list for every order in which the
\* file system may enumerate the files, and it is empty when no file
\* matches.
C9_ListDumpsSorted ==
    \A p \in Procs :
        (proc[p].req = "list_dumps" /\ proc[p].pc = "done") =>
            LET dumps == proc[p].dumps
            IN  /\ {dumps[i] : i \in 1..Len(dumps)} = Globbed
                /\ Len(dumps) = Cardinality(Globbed)
                /\ \A i, j \in 1..Len(dumps) :
                     i < j => StrLess(dumps[i], dumps[j])
                /\ \A i, j \in 1..Len(dumps) :
                     (i < j /\ ValidName(dumps[i]) /\ ValidName(dumps[j])) =>
                        NotAfter(DateOf(dumps[i]), DateOf(dumps[j]))
                /\ \A enum \in Orders(Globbed) : list_dumps(enum) = dumps
                /\ Globbed = {} => dumps = <<>>

\* A call of list_dumps has returned two or more files, two of them validly
\* named, which the file system had enumerated in another order, from a
\* directory that also holds a file that does not match the pattern.
C9_Witness ==
    /\ proc[First].req = "list_dumps" /\ proc[First].pc = "done"
    /\ Len(proc[First].dumps) >= 2
    /\ proc[First].globbed # proc[First].dumps
    /\ \E n, m \in Globbed : n # m /\ ValidName(n) /\ ValidName(m)
    /\ \E n \in FileNames : DUMPS[n].exists /\ n \notin Globbed

\* C10: when the dump directory holds a file that matches the pattern, a
\* call of latest_dump returns, and what it returns is the last element of
\* the list of list_dumps, for every order of enumeration: the matching
\* file with the greatest name, which, when validly named, bears the most
\* recent date of the validly named files.
C10_LatestIsLast ==
    \A p \in Procs :
        (proc[p].req = "latest_dump" /\ Ended(proc[p]) /\ Globbed # {}) =>
            /\ proc[p].pc = "done"
            /\ \A enum \in Orders(Globbed) :
                 proc[p].path = list_dumps(enum)[Len(list_dumps(enum))]
            /\ proc[p].path \in Globbed
            /\ \A n \in Globbed \ {proc[p].path} : StrLess(n, proc[p].path)
            /\ ValidName(proc[p].path) =>
                 \A n \in Globbed :
                     ValidName(n) => NotAfter(DateOf(n), DateOf(proc[p].path))

\* A call of latest_dump has returned the greatest of two or more files,
\* which was not the last one the file system enumerated.
C10_Witness ==
    /\ proc[First].req = "latest_dump" /\ proc[First].pc = "done"
    /\ Cardinality(Globbed) >= 2
    /\ proc[First].path # proc[First].globbed[Len(proc[First].globbed)]
    /\ ValidName(proc[First].path)
    /\ \E n \in Globbed \ {proc[First].path} : ValidName(n)

\* C11: when no file of the dump directory matches the pattern, a call of
\* latest_dump fails with IndexError, and so does a request for '/', which
\* then has called read_dump for no path: it has checked no cache entry,
\* opened no dump file and no cache file, and has no record; the cache is
\* as it was when the call or request started.
C11_EmptyDirectoryFails ==
    \A p \in Procs :
        (/\ proc[p].req \in {"latest_dump", "main"}
         /\ Ended(proc[p])
         /\ Globbed = {}) =>
            /\ proc[p].pc = "failed"
            /\ proc[p].err = "IndexError"
            /\ proc[p].path = <<>>
            /\ ~proc[p].hit
            /\ proc[p].opened = <<>>
            /\ proc[p].written = <<>>
            /\ proc[p].data = <<>>
            /\ CACHE = proc[p].cache0

\* A request for '/' has failed with IndexError on an empty dump
\* directory.
C11_Witness ==
    /\ proc[First].req = "main" /\ proc[First].pc = "failed"
    /\ proc[First].err = "IndexError"
    /\ proc[First].globbed = <<>>
    /\ \A n \in FileNames : ~DUMPS[n].exists

\* The record a call of read_dump alone computes from dump n on an empty
\* cache.
RecordOf(n) == read_dump(EmptyCache, n).rec.data

\* C12: whatever requests overlap it, a request for '/' that has returned
\* read the matching file with the greatest name; what it renders as stats
\* are the items of that dump's record other than "total", each once, in
\* an order of non-increasing counts, and what it renders as total is the
\* record's value under "total"; this whether the request found the
\* record in the cache, when it opened no dump file, or computed it.
C12_MainRendersLatestRecord ==
    \A p \in Procs :
        (proc[p].req = "main" /\ proc[p].pc = "done") =>
            LET latest == proc[p].path
                record == RecordOf(latest)
                stats == proc[p].stats
            IN  /\ latest \in Globbed
                /\ \A n \in Globbed \ {latest} : StrLess(n, latest)
                /\ proc[p].hit => proc[p].opened = <<>> /\ proc[p].written = <<>>
                /\ ~proc[p].hit => proc[p].opened = <<latest>>
                /\ Total \in Keys(record)
                /\ proc[p].total = Get(record, Total)
                /\ {stats[i].k : i \in 1..Len(stats)} = Keys(record) \ {Total}
                /\ Len(stats) = Cardinality(Keys(record) \ {Total})
                /\ \A i \in 1..Len(stats) : stats[i].v = Get(record, stats[i].k)
                /\ \A i, j \in 1..Len(stats) : i < j => stats[i].v >= stats[j].v

\* In a directory of two dumps with different records, a request for '/'
\* has rendered, from a cache hit, the record of the later one, whose
\* items it had to reorder, while another request was computing the same
\* record and the record of the earlier dump was in the cache.
C12_Witness ==
    /\ \E n \in Globbed :
         /\ StrLess(n, proc[First].path)
         /\ WellFormed(n)
         /\ RecordOf(n) # RecordOf(proc[First].path)
         /\ CACHE[cached_name(n)].exists
    /\ proc[First].req = "main" /\ proc[First].pc = "done"
    /\ proc[First].hit
    /\ Len(proc[First].stats) >= 2
    /\ proc[First].stats # Without(RecordOf(proc[First].path), Total)
    /\ proc[First].total = 3
    /\ proc[Second].pc = "open" /\ proc[Second].path = proc[First].path

\* Characters 10..-3 of a file name, counted as Python slices count them.
DateSubstring(n) == SubSeq(n, 11, Len(n) - 3)

\* C13: a request for '/chart.svg' that has returned responds with a
\* figure of one line, which has one point for each file list_dumps
\* returns, in the order of that list: the x of the point is the date
\* parsed from characters 10..-3 of the file's name and its y is the
\* "total" of the file's record; a request that has ended while the date
\* substring of some listed file does not parse has failed and responds
\* with no figure.
C13_ChartPlotsEachDump ==
    \A p \in Procs :
        (proc[p].req = "chart" /\ Ended(proc[p])) =>
            LET l == list_dumps(proc[p].globbed)
                x == proc[p].x
                y == proc[p].y
            IN  /\ proc[p].pc = "done" =>
                     /\ {l[i] : i \in 1..Len(l)} = Globbed
                     /\ Len(x) = Len(l) /\ Len(y) = Len(l)
                     /\ \A i \in 1..Len(l) :
                          /\ strptime(DateSubstring(l[i])).ok
                          /\ x[i] = strptime(DateSubstring(l[i]))
                          /\ y[i] = Get(RecordOf(l[i]), Total)
                     /\ proc[p].svg.lines = <<[x |-> x, y |-> y]>>
                /\ (\E n \in Globbed : ~strptime(DateSubstring(n)).ok) =>
                     proc[p].pc = "failed" /\ proc[p].svg = NoFigure

\* A readable dump each of whose lines is empty or contains a '|'.
EmptyOrWellFormedLines(n) ==
    /\ DUMPS[n].exists /\ DUMPS[n].gz
    /\ \A i \in 1..Len(LinesOf(n)) :
         LinesOf(n)[i] = <<>> \/ HasPipe(LinesOf(n)[i])

\* The number of non-empty lines of dump n whose URL has network-location d.
NonEmptyCountOf(n, d) ==
    Cardinality({i \in 1..Len(LinesOf(n)) :
                    /\ LinesOf(n)[i] # <<>>
                    /\ netloc(UrlOf(LinesOf(n)[i])) = d})

\* C14: a call of read_dump that has ended after a cache miss on a dump
\* whose lines are all empty or of the form code|url has returned a
\* record, in which every domain other than "total" has the number of
\* non-empty lines whose URL has it: the empty lines count for nothing and
\* do not make the call fail.
C14_EmptyLinesAreSkipped ==
    \A p \in Procs :
        (/\ proc[p].req = "read_dump" /\ Ended(proc[p])
         /\ ~proc[p].hit
         /\ EmptyOrWellFormedLines(proc[p].path)) =>
            /\ proc[p].pc = "done"
            /\ \A d \in Keys(proc[p].data) \ {Total} :
                 Get(proc[p].data, d) = NonEmptyCountOf(proc[p].path, d)

\* C15: a call of read_dump that has ended after it found a cache entry for
\* its dump has returned a record, and has opened no dump file and no
\* cache file for writing; a call that has opened the dump file had found
\* no entry.
C15_TrustOnPresence ==
    \A p \in Procs :
        (proc[p].req = "read_dump" /\ Ended(proc[p])) =>
            /\ proc[p].hit =>
                 /\ proc[p].pc = "done"
                 /\ Total \in Keys(proc[p].data)
                 /\ proc[p].opened = <<>>
                 /\ proc[p].written = <<>>
            /\ proc[p].opened # <<>> => ~proc[p].hit

\* C16: in every state of the requests served one after the other, from an
\* empty cache and with dumps that do not change, every cache entry that
\* exists, other than the one the call under way has opened and is about
\* to write, is named after a dump file, loads as a record with the key
\* "total", and that record is the one a call of read_dump computes from
\* that dump file on an empty cache.
C16_EntriesAreComplete ==
    \A n \in FileNames :
        (CACHE[cached_name(n)].exists /\ ~BeingWritten(cached_name(n))) =>
            LET entry == json_load(CACHE[cached_name(n)].content)
                alone == read_dump(EmptyCache, n).rec
            IN  /\ entry.ok
                /\ Total \in Keys(entry.data)
                /\ alone.pc = "done" /\ ~alone.hit
                /\ entry.data = alone.data

\* A request for '/' has returned after a cache miss, having removed
\* "total" from its record, and the cache holds the entries of two dumps.
C16_Witness ==
    /\ proc[First].req = "main" /\ proc[First].pc = "done"
    /\ ~proc[First].hit
    /\ Total \notin {proc[First].stats[i].k : i \in 1..Len(proc[First].stats)}
    /\ CACHE[cached_name(proc[First].path)].exists
    /\ Cardinality({k \in CacheNames : CACHE[k].exists}) >= 2

\* C17: in every record read_dump computes on a cache miss, the value under
\* "total" is the number of lines of the dump, also when lines have a URL
\* whose network-location is "total".
C17_TotalIsLineCount ==
    \A p \in Procs :
        Computed(p) =>
            /\ Total \in Keys(proc[p].data)
            /\ Get(proc[p].data, Total) = Len(LinesOf(proc[p].path))

\* read_dump has computed the record of a dump of two or more lines, one of
\* them with a URL whose network-location is "total".
C17_Witness ==
    /\ Computed(First)
    /\ Len(LinesOf(proc[First].path)) >= 2
    /\ Total \in Occurring(proc[First].path)
    /\ Cardinality(Occurring(proc[First].path)) >= 2
    /\ Get(proc[First].data, Total) = Len(LinesOf(proc[First].path))

\* C18: every call of read_dump that has ended on a well-formed dump, while
\* other calls on the same dump overlapped it in any way, the cache file
\* opened for writing in one step and written in a later one, has returned
\* the record a call alone computes from the dump: it has not failed, and
\* it has not loaded an entry that was empty.
C18_EveryCallReturnsTheRecord ==
    \A p \in Procs :
        (/\ proc[p].req = "read_dump" /\ Ended(proc[p])
         /\ WellFormed(proc[p].path)) =>
            /\ proc[p].pc = "done"
            /\ proc[p].data = read_dump(EmptyCache, proc[p].path).rec.data

====
